---- MODULE Spec2Model ----
(***************************************************************************)
(* The two workflows of src/mastra/workflows (weather-workflow and          *)
(* web-search-workflow): the module's load sequence (createWorkflow, then, *)
(* commit, export, registration), the runs of the committed workflows, the *)
(* four step bodies with their await points, and the pure helpers the      *)
(* steps use.                                                              *)
(***************************************************************************)
EXTENDS Integers, Sequences, FiniteSets, TLC

\* ------------------------------------------------------------------ bounds
NumRuns == 2
MaxChunks == 2
MaxSeries == 3
MaxCode == 100

Runs == 1..NumRuns

\* --------------------------------------------------------- JavaScript values
\* A value crossing a schema boundary carries its runtime type: a string, a
\* finite number, an infinite number (Math.max() of nothing), undefined, or an
\* object (a record of such values).
Str(s) == [str |-> s]
Num(n) == [num |-> n]
PosInfinity == [inf |-> 1]
NegInfinity == [inf |-> -1]
Undefined == [undef |-> TRUE]

IsString(v) == DOMAIN v = {"str"}
IsNumber(v) == DOMAIN v = {"num"} \/ DOMAIN v = {"inf"}
IsUndefined(v) == DOMAIN v = {"undef"}
IsObject(v) == DOMAIN v \cap {"str", "num", "inf", "undef"} = {}

\* obj.f : undefined when the object has no such property
Field(obj, f) == IF f \in DOMAIN obj THEN obj[f] ELSE Undefined

\* JavaScript truthiness of a string-or-undefined value
Truthy(v) == IsString(v) /\ v.str # ""

\* ------------------------------------------------------------------ schemas
forecastSchema ==
  [date |-> "string", maxTemp |-> "number", minTemp |-> "number",
   precipitationChance |-> "number", condition |-> "string", location |-> "string"]

citySchema == [city |-> "string"]

queryFocusSchema == [query |-> "string", focus |-> "string?"]

searchResultSchema == [searchResults |-> "string", query |-> "string", focus |-> "string?"]

activitiesSchema == [activities |-> "string"]

\* zod's check of one property against z.string(), z.number(), z.string().optional()
TypeOK(ty, v) ==
  CASE ty = "string" -> IsString(v)
    [] ty = "number" -> IsNumber(v)
    [] ty = "string?" -> IsString(v) \/ IsUndefined(v)

\* z.object(schema).safeParse(v).success
Matches(schema, v) ==
  /\ IsObject(v)
  /\ \A f \in DOMAIN schema : TypeOK(schema[f], Field(v, f))

\* ------------------------------------------------------------- pure helpers
Max2(a, b) == IF a >= b THEN a ELSE b
Min2(a, b) == IF a <= b THEN a ELSE b

ConditionCodes == {0, 1, 2, 3, 45, 48, 51, 53, 55, 61, 63, 65, 71, 73, 75, 95}

conditions ==
  [c \in ConditionCodes |->
     CASE c = 0 -> "Clear sky"
       [] c = 1 -> "Mainly clear"
       [] c = 2 -> "Partly cloudy"
       [] c = 3 -> "Overcast"
       [] c = 45 -> "Foggy"
       [] c = 48 -> "Depositing rime fog"
       [] c = 51 -> "Light drizzle"
       [] c = 53 -> "Moderate drizzle"
       [] c = 55 -> "Dense drizzle"
       [] c = 61 -> "Slight rain"
       [] c = 63 -> "Moderate rain"
       [] c = 65 -> "Heavy rain"
       [] c = 71 -> "Slight snow fall"
       [] c = 73 -> "Moderate snow fall"
       [] c = 75 -> "Heavy snow fall"
       [] c = 95 -> "Thunderstorm"]

\* variant: the lookup without its fallback
getWeatherConditionNoDefault(code) ==
  IF code \in DOMAIN conditions THEN conditions[code] ELSE ""

\* conditions[code] || 'Unknown' : a missing key reads undefined, and undefined
\* and the empty string are falsy
getWeatherCondition(code) ==
  IF code \in DOMAIN conditions /\ conditions[code] # ""
    THEN conditions[code] ELSE "Unknown"

\* Math.max(...xs) and Math.min(...xs): -Infinity and Infinity for no arguments
RECURSIVE MaxOf(_)
MaxOf(xs) ==
  IF Len(xs) = 1 THEN xs[1] ELSE Max2(xs[1], MaxOf(Tail(xs)))

RECURSIVE MinOf(_)
MinOf(xs) ==
  IF Len(xs) = 1 THEN xs[1] ELSE Min2(xs[1], MinOf(Tail(xs)))

MathMax(xs) == IF xs = <<>> THEN NegInfinity ELSE Num(MaxOf(xs))
MathMin(xs) == IF xs = <<>> THEN PosInfinity ELSE Num(MinOf(xs))

\* xs.reduce((acc, curr) => Math.max(acc, curr), 0)
RECURSIVE ReduceMax(_, _)
ReduceMax(xs, acc) ==
  IF xs = <<>> THEN acc ELSE ReduceMax(Tail(xs), Max2(acc, xs[1]))

\* variant: the mean of the readings instead of their maximum
RECURSIVE SumOf(_)
SumOf(xs) == IF xs = <<>> THEN 0 ELSE xs[1] + SumOf(Tail(xs))

PrecipitationChanceAverage(probs) ==
  IF probs = <<>> THEN 0 ELSE SumOf(probs) \div Len(probs)

PrecipitationChance(probs) == ReduceMax(probs, 0)

\* the forecast object literal of fetch-weather
MakeForecast(inputData, data, now) ==
  [date |-> Str(now),
   maxTemp |-> MathMax(data.hourly.temperature_2m),
   minTemp |-> MathMin(data.hourly.temperature_2m),
   condition |-> Str(getWeatherCondition(data.current.weathercode)),
   precipitationChance |-> Num(PrecipitationChance(data.hourly.precipitation_probability)),
   location |-> inputData.city]

\* variant: the no-focus template used for every input
SearchQueryDropFocus(inputData) ==
  inputData.query.str \o " current activities attractions events what to do"

\* the searchQuery template of web-search-info
SearchQuery(inputData) ==
  IF Truthy(Field(inputData, "focus"))
    THEN inputData.query.str \o " " \o inputData.focus.str
           \o " current information activities attractions events"
    ELSE inputData.query.str \o " current activities attractions events what to do"

\* the object web-search-info returns

SearchResult(inputData, text) ==
  [searchResults |-> Str(text),
   query |-> inputData.query,
   focus |-> Field(inputData, "focus")]

\* -------------------------------------------------------------------- state
VARIABLES
  loadPc,      \* number of module-level statements already evaluated
  workflows,   \* each workflow object: its status and its step chain
  registered,  \* the workflows the Mastra instance was given
  runs,        \* each run: the runner's position and the running step's locals
  console,     \* process.stdout, shared by every run
  fn           \* a pure function applied to one argument (SpecPure only)

vars == <<loadPc, workflows, registered, runs, console, fn>>

WorkflowIds == {"weather-workflow", "web-search-workflow"}

\* variant: the weather chain with its two steps swapped
weatherStepsReversed == <<"plan-activities", "fetch-weather">>

\* the .then chains as written
weatherSteps == <<"fetch-weather", "plan-activities">>

webSearchSteps == <<"web-search-info", "plan-web-search-activities">>

\* variant: the module without weatherWorkflow.commit()
ModuleBodyCommitMissing ==
  <<[op |-> "createWorkflow", wf |-> "weather-workflow", step |-> ""],
    [op |-> "then", wf |-> "weather-workflow", step |-> weatherSteps[1]],
    [op |-> "then", wf |-> "weather-workflow", step |-> weatherSteps[2]],
    [op |-> "createWorkflow", wf |-> "web-search-workflow", step |-> ""],
    [op |-> "then", wf |-> "web-search-workflow", step |-> webSearchSteps[1]],
    [op |-> "then", wf |-> "web-search-workflow", step |-> webSearchSteps[2]],
    [op |-> "commit", wf |-> "web-search-workflow", step |-> ""],
    [op |-> "export", wf |-> "", step |-> ""],
    [op |-> "register", wf |-> "", step |-> ""]>>

\* the module-level statements of workflows/index.ts and mastra/index.ts, in
\* evaluation order
ModuleBody ==
  <<[op |-> "createWorkflow", wf |-> "weather-workflow", step |-> ""],
    [op |-> "then", wf |-> "weather-workflow", step |-> weatherSteps[1]],
    [op |-> "then", wf |-> "weather-workflow", step |-> weatherSteps[2]],
    [op |-> "commit", wf |-> "weather-workflow", step |-> ""],
    [op |-> "createWorkflow", wf |-> "web-search-workflow", step |-> ""],
    [op |-> "then", wf |-> "web-search-workflow", step |-> webSearchSteps[1]],
    [op |-> "then", wf |-> "web-search-workflow", step |-> webSearchSteps[2]],
    [op |-> "commit", wf |-> "web-search-workflow", step |-> ""],
    [op |-> "export", wf |-> "", step |-> ""],
    [op |-> "register", wf |-> "", step |-> ""]>>

Statement == ModuleBody[loadPc + 1]

StepInputSchema(s) ==
  CASE s = "fetch-weather" -> citySchema
    [] s = "plan-activities" -> forecastSchema
    [] s = "web-search-info" -> queryFocusSchema
    [] s = "plan-web-search-activities" -> searchResultSchema

StepOutputSchema(s) ==
  CASE s = "fetch-weather" -> forecastSchema
    [] s = "plan-activities" -> activitiesSchema
    [] s = "web-search-info" -> searchResultSchema
    [] s = "plan-web-search-activities" -> activitiesSchema

IdleRun ==
  [wf |-> "", status |-> "Idle", pc |-> "idle", stepIdx |-> 0,
   input |-> Undefined, value |-> Undefined, inputData |-> Undefined,
   geo |-> Undefined, activitiesText |-> "", stepOut |-> Undefined,
   output |-> Undefined, error |-> "",
   invoked |-> <<>>, calls |-> <<>>, resps |-> <<>>]

NoWorkflow == [status |-> "Absent", steps |-> <<>>]

NoFn == [op |-> "none", arg |-> Undefined, res |-> Undefined, done |-> FALSE]

Init ==
  /\ loadPc = 0
  /\ workflows = [w \in WorkflowIds |-> NoWorkflow]
  /\ registered = {}
  /\ runs = [r \in Runs |-> IdleRun]
  /\ console = <<>>
  /\ fn = NoFn

\* -------------------------------------------------------------- module load
\* createWorkflow({id, inputSchema, outputSchema})
CreateWorkflow ==
  /\ loadPc < Len(ModuleBody)
  /\ Statement.op = "createWorkflow"
  /\ workflows' = [workflows EXCEPT ![Statement.wf] = [status |-> "Created", steps |-> <<>>]]
  /\ loadPc' = loadPc + 1
  /\ UNCHANGED <<registered, runs, console, fn>>

\* .then(step)
Then ==
  /\ loadPc < Len(ModuleBody)
  /\ Statement.op = "then"
  /\ workflows' = [workflows EXCEPT ![Statement.wf].steps = Append(@, Statement.step)]
  /\ loadPc' = loadPc + 1
  /\ UNCHANGED <<registered, runs, console, fn>>

\* workflow.commit()
Commit ==
  /\ loadPc < Len(ModuleBody)
  /\ Statement.op = "commit"
  /\ workflows' = [workflows EXCEPT ![Statement.wf].status = "Committed"]
  /\ loadPc' = loadPc + 1
  /\ UNCHANGED <<registered, runs, console, fn>>

\* export { weatherWorkflow, webSearchWorkflow }
Export ==
  /\ loadPc < Len(ModuleBody)
  /\ Statement.op = "export"
  /\ loadPc' = loadPc + 1
  /\ UNCHANGED <<workflows, registered, runs, console, fn>>

\* new Mastra({ workflows: { weatherWorkflow, webSearchWorkflow } })
Register ==
  /\ loadPc < Len(ModuleBody)
  /\ Statement.op = "register"
  /\ registered' = {w \in WorkflowIds : workflows[w].status # "Absent"}
  /\ loadPc' = loadPc + 1
  /\ UNCHANGED <<workflows, runs, console, fn>>

Load == CreateWorkflow \/ Then \/ Commit \/ Export \/ Register

\* ------------------------------------------------------------------- runner
\* variant: the error is noted and the run goes on
ThrowSwallowed(run, msg) == [run EXCEPT !.error = msg]

\* a throw out of the runner or out of a step's execute: the run fails with
\* the error and nothing else
Throw(run, msg) == [run EXCEPT !.status = "Failed", !.error = msg, !.pc = "done"]

Steps(r) == workflows[runs[r].wf].steps

CurrentStep(r) == Steps(r)[runs[r].stepIdx]

Executing(r, s) ==
  /\ runs[r].status = "Running"
  /\ runs[r].stepIdx >= 1
  /\ CurrentStep(r) = s

\* run.start({ inputData }) on a workflow obtained from the Mastra instance
StartRun(r, w, input) ==
  /\ runs[r].status = "Idle"
  /\ w \in registered
  /\ runs' = [runs EXCEPT ![r] =
       [IdleRun EXCEPT !.wf = w, !.status = "Running", !.pc = "handoff",
                       !.input = input, !.value = input]]
  /\ UNCHANGED <<loadPc, workflows, registered, console, fn>>

\* the runner takes the next step of the chain, checks the value in hand
\* against the step's inputSchema and calls execute({ inputData })

InvokeStep(r) ==
  /\ runs[r].status = "Running"
  /\ runs[r].pc = "handoff"
  /\ runs[r].stepIdx < Len(Steps(r))
  /\ LET next == Steps(r)[runs[r].stepIdx + 1] IN
       runs' = [runs EXCEPT ![r] =
         IF Matches(StepInputSchema(next), runs[r].value)
           THEN [@ EXCEPT !.stepIdx = @ + 1, !.inputData = runs[r].value,
                          !.invoked = Append(@, next), !.pc = "execute"]
           ELSE Throw(@, "ValidationError")]
  /\ UNCHANGED <<loadPc, workflows, registered, console, fn>>

\* execute returned: the runner checks the result against the step's
\* outputSchema, then either hands it to the next step or, after the last
\* step, returns it as the run's output

CompleteStep(r) ==
  /\ runs[r].status = "Running"
  /\ runs[r].pc = "returned"
  /\ runs' = [runs EXCEPT ![r] =
       IF ~Matches(StepOutputSchema(CurrentStep(r)), runs[r].stepOut)
         THEN Throw(@, "ValidationError")
         ELSE IF runs[r].stepIdx = Len(Steps(r))
           THEN [@ EXCEPT !.value = runs[r].stepOut, !.output = runs[r].stepOut,
                          !.status = "Succeeded", !.pc = "done"]
           ELSE [@ EXCEPT !.value = runs[r].stepOut, !.pc = "handoff"]]
  /\ UNCHANGED <<loadPc, workflows, registered, console, fn>>

\* ------------------------------------------------------------- fetch-weather
Call(api, arg) == [api |-> api, arg |-> arg]
Resp(api, body) == [api |-> api, body |-> body]

\* a rejected fetch, a rejected generate, a stream that errors
Rejected == [rejected |-> TRUE]

\* `Location '${inputData.city}' not found`
LocationNotFound(inputData) == "Location '" \o inputData.city.str \o "' not found"

\* !geocodingData.results?.[0]
NoFirstResult(body) ==
  \/ "results" \notin DOMAIN body
  \/ Len(body.results) = 0

\* data.hourly.temperature_2m and data.current.weathercode can be read
WellFormed(body) == {"current", "hourly"} \subseteq DOMAIN body

\* execute up to its first await: the input check and the geocoding fetch
FetchWeatherBegin(r) ==
  /\ Executing(r, "fetch-weather")
  /\ runs[r].pc = "execute"
  /\ runs' = [runs EXCEPT ![r] =
       IF IsUndefined(runs[r].inputData)
         THEN Throw(@, "Input data not found")
         ELSE [@ EXCEPT !.calls = Append(@, Call("geocoding", runs[r].inputData.city)),
                        !.pc = "await-geocoding"]]
  /\ UNCHANGED <<loadPc, workflows, registered, console, fn>>

\* variant: the geocoding response is used without the not-found check
FetchWeatherGeocodedNoCheck(r, body) ==
  /\ Executing(r, "fetch-weather")
  /\ runs[r].pc = "await-geocoding"
  /\ runs' = [runs EXCEPT ![r] =
       IF body = Rejected
         THEN Throw([@ EXCEPT !.resps = Append(@, Resp("geocoding", body))], "fetch failed")
         ELSE [@ EXCEPT !.resps = Append(@, Resp("geocoding", body)),
                        !.geo = IF NoFirstResult(body) THEN Undefined ELSE body.results[1],
                        !.calls = Append(@, Call("forecast",
                                    IF NoFirstResult(body) THEN Undefined ELSE body.results[1])),
                        !.pc = "await-forecast"]]
  /\ UNCHANGED <<loadPc, workflows, registered, console, fn>>

\* the geocoding response arrives: the not-found check, then the forecast fetch
FetchWeatherGeocoded(r, body) ==
  /\ Executing(r, "fetch-weather")
  /\ runs[r].pc = "await-geocoding"
  /\ runs' = [runs EXCEPT ![r] =
       IF body = Rejected
         THEN Throw([@ EXCEPT !.resps = Append(@, Resp("geocoding", body))], "fetch failed")
         ELSE IF NoFirstResult(body)
           THEN Throw([@ EXCEPT !.resps = Append(@, Resp("geocoding", body))],
                      LocationNotFound(runs[r].inputData))
           ELSE [@ EXCEPT !.resps = Append(@, Resp("geocoding", body)),
                          !.geo = body.results[1],
                          !.calls = Append(@, Call("forecast", body.results[1])),
                          !.pc = "await-forecast"]]
  /\ UNCHANGED <<loadPc, workflows, registered, console, fn>>

\* the forecast response arrives: the forecast object is built and returned
FetchWeatherForecast(r, body, now) ==
  /\ Executing(r, "fetch-weather")
  /\ runs[r].pc = "await-forecast"
  /\ runs' = [runs EXCEPT ![r] =
       IF body = Rejected
         THEN Throw([@ EXCEPT !.resps = Append(@, Resp("forecast", body))], "fetch failed")
         ELSE IF ~WellFormed(body)
           THEN Throw([@ EXCEPT !.resps = Append(@, Resp("forecast", body))], "TypeError")
           ELSE [@ EXCEPT !.resps = Append(@, Resp("forecast", [data |-> body, now |-> now])),
                          !.stepOut = MakeForecast(runs[r].inputData, body, now),
                          !.pc = "returned"]]
  /\ UNCHANGED <<loadPc, workflows, registered, console, fn>>

\* ------------------------------------------- the two activity-planning steps
\* process.stdout.write(chunk) and console.log(line)
Written(r, chunk) == [run |-> r, kind |-> "write", text |-> chunk]
Logged(r, line) == [run |-> r, kind |-> "log", text |-> line]

\* variant: an accumulator at module level, shared by every run: everything
\* written to stdout with process.stdout.write, by any run
RECURSIVE WrittenText(_)
WrittenText(out) ==
  IF out = <<>> THEN ""
  ELSE (IF out[1].kind = "write" THEN out[1].text ELSE "") \o WrittenText(Tail(out))

ActivitiesTextShared(r) == WrittenText(console)

\* the accumulator: `let activitiesText = ''`, local to one call of execute
ActivitiesText(r) == runs[r].activitiesText

\* variant: the chunk put in front of the text
AccumulatePrepend(text, chunk) == chunk \o text

\* activitiesText += chunk
Accumulate(text, chunk) == text \o chunk

\* the prompt of plan-activities: the location and JSON.stringify(forecast)
ForecastPrompt(forecast) == [location |-> forecast.location, json |-> forecast]

\* the prompt of plan-web-search-activities: the search findings
FindingsPrompt(inputData) == [findings |-> inputData.searchResults]

\* one turn of `for await (const chunk of response.textStream)`: the echo,
\* then the append
StreamChunk(r, chunk) ==
  /\ runs[r].pc = "streaming"
  /\ console' = Append(console, Written(r, chunk))
  /\ runs' = [runs EXCEPT ![r] =
       [@ EXCEPT !.resps = Append(@, Resp("chunk", Str(chunk))),
                 !.activitiesText = Accumulate(ActivitiesText(r), chunk)]]
  /\ UNCHANGED <<loadPc, workflows, registered, fn>>

\* the stream ends: return { activities: activitiesText }
StreamEnd(r) ==
  /\ runs[r].pc = "streaming"
  /\ runs' = [runs EXCEPT ![r] =
       [@ EXCEPT !.resps = Append(@, Resp("end", Undefined)),
                 !.stepOut = [activities |-> Str(ActivitiesText(r))],
                 !.pc = "returned"]]
  /\ UNCHANGED <<loadPc, workflows, registered, console, fn>>

\* agent.stream rejects, or the stream errors between two chunks
StreamError(r) ==
  /\ runs[r].pc = "streaming"
  /\ runs' = [runs EXCEPT ![r] =
       Throw([@ EXCEPT !.resps = Append(@, Resp("chunk", Rejected))], "stream failed")]
  /\ UNCHANGED <<loadPc, workflows, registered, console, fn>>

\* plan-activities up to its first await: the forecast check and agent.stream
PlanActivitiesBegin(r) ==
  /\ Executing(r, "plan-activities")
  /\ runs[r].pc = "execute"
  /\ runs' = [runs EXCEPT ![r] =
       IF IsUndefined(runs[r].inputData)
         THEN Throw(@, "Forecast data not found")
         ELSE [@ EXCEPT !.calls = Append(@, Call("stream", ForecastPrompt(runs[r].inputData))),
                        !.activitiesText = "",
                        !.pc = "streaming"]]
  /\ UNCHANGED <<loadPc, workflows, registered, console, fn>>

PlanActivitiesChunk(r, chunk) ==
  /\ Executing(r, "plan-activities")
  /\ StreamChunk(r, chunk)

PlanActivitiesEnd(r) ==
  /\ Executing(r, "plan-activities")
  /\ StreamEnd(r)

PlanActivitiesStreamError(r) ==
  /\ Executing(r, "plan-activities")
  /\ StreamError(r)

\* ----------------------------------------------------------- web-search-info
\* execute up to its await: the input check, the search phrase, the log line
\* and webSearchAgent.generate
WebSearchBegin(r) ==
  /\ Executing(r, "web-search-info")
  /\ runs[r].pc = "execute"
  /\ IF IsUndefined(runs[r].inputData)
       THEN /\ runs' = [runs EXCEPT ![r] = Throw(@, "Input data not found")]
            /\ UNCHANGED console
       ELSE /\ console' = Append(console,
                 Logged(r, "Searching for: " \o SearchQuery(runs[r].inputData)))
            /\ runs' = [runs EXCEPT ![r] =
                 [@ EXCEPT !.calls = Append(@, Call("generate",
                                        Str(SearchQuery(runs[r].inputData)))),
                           !.pc = "await-generate"]]
  /\ UNCHANGED <<loadPc, workflows, registered, fn>>

\* generate resolves: the step returns the findings with the query and focus
WebSearchGenerated(r, body) ==
  /\ Executing(r, "web-search-info")
  /\ runs[r].pc = "await-generate"
  /\ runs' = [runs EXCEPT ![r] =
       IF body = Rejected
         THEN Throw([@ EXCEPT !.resps = Append(@, Resp("generate", body))], "generate failed")
         ELSE [@ EXCEPT !.resps = Append(@, Resp("generate", body)),
                        !.stepOut = SearchResult(runs[r].inputData, body.text),
                        !.pc = "returned"]]
  /\ UNCHANGED <<loadPc, workflows, registered, console, fn>>

\* plan-web-search-activities up to its first await
PlanWebSearchBegin(r) ==
  /\ Executing(r, "plan-web-search-activities")
  /\ runs[r].pc = "execute"
  /\ IF IsUndefined(runs[r].inputData)
       THEN /\ runs' = [runs EXCEPT ![r] = Throw(@, "Search results not found")]
            /\ UNCHANGED console
       ELSE /\ console' = Append(console,
                 Logged(r, "Planning activities for: " \o runs[r].inputData.query.str))
            /\ runs' = [runs EXCEPT ![r] =
                 [@ EXCEPT !.calls = Append(@, Call("stream", FindingsPrompt(runs[r].inputData))),
                           !.activitiesText = "",
                           !.pc = "streaming"]]
  /\ UNCHANGED <<loadPc, workflows, registered, fn>>

PlanWebSearchChunk(r, chunk) ==
  /\ Executing(r, "plan-web-search-activities")
  /\ StreamChunk(r, chunk)

PlanWebSearchEnd(r) ==
  /\ Executing(r, "plan-web-search-activities")
  /\ StreamEnd(r)

PlanWebSearchStreamError(r) ==
  /\ Executing(r, "plan-web-search-activities")
  /\ StreamError(r)

\* ------------------------------------------------------------ environments
\* the fragments the text-generation service has delivered to run r, in order
ChunkResps(r) ==
  SelectSeq(runs[r].resps, LAMBDA x : x.api = "chunk" /\ x.body # Rejected)

Received(r) == [i \in 1..Len(ChunkResps(r)) |-> ChunkResps(r)[i].body.str]

Candidate(name, lat, lon) ==
  [latitude |-> Num(lat), longitude |-> Num(lon), name |-> Str(name)]

Payload(code, temps, probs) ==
  [current |-> [weathercode |-> code],
   hourly |-> [precipitation_probability |-> probs, temperature_2m |-> temps]]

\* every sequence of at most n elements of S
SeqsUpTo(S, n) == UNION {[1..k -> S] : k \in 0..n}

\* reply continues the fragments already received
IsNextOf(reply, got) ==
  /\ Len(got) < Len(reply)
  /\ got = SubSeq(reply, 1, Len(got))

\* what a single run may be given and may receive
Env ==
  [inputs |-> [w \in WorkflowIds |->
      IF w = "weather-workflow"
        THEN {Undefined, [city |-> Str("Paris")], [city |-> Str("Rome")], [city |-> Num(42)]}
        ELSE {Undefined, [query |-> Str("Lisbon")],
              [query |-> Str("Lisbon"), focus |-> Str("")],
              [query |-> Str("Lisbon"), focus |-> Str("food")],
              [focus |-> Str("food")]}],
   geo |-> {Rejected, [generationtime_ms |-> Num(1)], [results |-> <<>>],
            [results |-> <<Candidate("Paris", 48, 2)>>]},
   weather |-> {Rejected, [error |-> TRUE],
                Payload(0, <<12, 18, 7>>, <<10, 90, 30>>),
                Payload(61, <<3>>, <<0>>),
                Payload(4, <<>>, <<>>)},
   dates |-> {"2025-06-01T09:00:00.000Z"},
   texts |-> {Rejected, [text |-> "findings"], [text |-> ""]},
   replies |-> SeqsUpTo({"", "Hel", "lo"}, MaxChunks)]

\* what the r-th of several concurrent callers gives and receives: every
\* caller asks about another place, and the services answer what they were
\* asked, so no two runs are given or receive the same data
ConcEnv(r) ==
  [inputs |-> [w \in WorkflowIds |->
      IF w = "weather-workflow"
        THEN {[city |-> Str("city " \o ToString(r))]}
        ELSE {[query |-> Str("topic " \o ToString(r)), focus |-> Str("food")]}],
   geo |-> {[results |-> <<>>], [results |-> <<Candidate("city " \o ToString(r), r, r)>>]},
   weather |-> {Payload(r, <<r, r + 10>>, <<r * 10, r>>)},
   dates |-> {"2025-06-01T09:00:00.000Z"},
   texts |-> {[text |-> "findings " \o ToString(r)]},
   replies |-> {<<"plan " \o ToString(r) \o " ">>}]

\* every step one run can take in environment E
RunNext(r, E) ==
  \/ \E w \in WorkflowIds : \E input \in E.inputs[w] : StartRun(r, w, input)
  \/ InvokeStep(r)
  \/ CompleteStep(r)
  \/ FetchWeatherBegin(r)
  \/ \E body \in E.geo : FetchWeatherGeocoded(r, body)
  \/ \E body \in E.weather : \E now \in E.dates : FetchWeatherForecast(r, body, now)
  \/ PlanActivitiesBegin(r)
  \/ \E reply \in E.replies :
       IsNextOf(reply, Received(r)) /\ PlanActivitiesChunk(r, reply[Len(Received(r)) + 1])
  \/ Received(r) \in E.replies /\ PlanActivitiesEnd(r)
  \/ PlanActivitiesStreamError(r)
  \/ WebSearchBegin(r)
  \/ \E body \in E.texts : WebSearchGenerated(r, body)
  \/ PlanWebSearchBegin(r)
  \/ \E reply \in E.replies :
       IsNextOf(reply, Received(r)) /\ PlanWebSearchChunk(r, reply[Len(Received(r)) + 1])
  \/ Received(r) \in E.replies /\ PlanWebSearchEnd(r)
  \/ PlanWebSearchStreamError(r)

\* one caller that runs a workflow once
Next == Load \/ RunNext(1, Env)

Spec == Init /\ [][Next]_vars

\* several callers; run slots are taken in order
NextConc ==
  \/ Load
  \/ \E r \in Runs :
       /\ \A q \in Runs : q < r => runs[q].status # "Idle"
       /\ RunNext(r, ConcEnv(r))

SpecConc == Init /\ [][NextConc]_vars

\* ------------------------------------------------- pure functions, applied
Readings == {0, 10, 30, 90}

Codes == -1..MaxCode

PureCalls ==
  {[op |-> "getWeatherCondition", arg |-> [code |-> c], res |-> Undefined, done |-> FALSE] :
     c \in Codes}
  \cup
  {[op |-> "forecast",
    arg |-> [inputData |-> [city |-> Str("Paris")],
             data |-> Payload(c, temps, probs),
             now |-> "2025-06-01T09:00:00.000Z"],
    res |-> Undefined, done |-> FALSE] :
     c \in {0, 4}, temps \in {<<>>, <<12, 18, 7>>}, probs \in SeqsUpTo(Readings, MaxSeries)}

InitPure ==
  /\ loadPc = 0
  /\ workflows = [w \in WorkflowIds |-> NoWorkflow]
  /\ registered = {}
  /\ runs = [r \in Runs |-> IdleRun]
  /\ console = <<>>
  /\ fn \in PureCalls

ApplyGetWeatherCondition ==
  /\ fn.op = "getWeatherCondition"
  /\ ~fn.done
  /\ fn' = [fn EXCEPT !.res = Str(getWeatherCondition(fn.arg.code)), !.done = TRUE]
  /\ UNCHANGED <<loadPc, workflows, registered, runs, console>>

ApplyMakeForecast ==
  /\ fn.op = "forecast"
  /\ ~fn.done
  /\ fn' = [fn EXCEPT !.res = MakeForecast(fn.arg.inputData, fn.arg.data, fn.arg.now),
                      !.done = TRUE]
  /\ UNCHANGED <<loadPc, workflows, registered, runs, console>>

NextPure == ApplyGetWeatherCondition \/ ApplyMakeForecast

SpecPure == InitPure /\ [][NextPure]_vars

\* ------------------------------------------------------------------ claims
\* the chains the two workflows declare
DeclaredOrder(w) ==
  IF w = "weather-workflow"
    THEN <<"fetch-weather", "plan-activities">>
    ELSE <<"web-search-info", "plan-web-search-activities">>

Started(r) == runs[r].status # "Idle"

\* the fragments of a stream, joined in order
RECURSIVE Concat(_)
Concat(chunks) ==
  IF chunks = <<>> THEN "" ELSE chunks[1] \o Concat(Tail(chunks))

ApiOf(log) == [i \in 1..Len(log) |-> log[i].api]

\* the texts run r wrote to stdout with process.stdout.write, in order
RECURSIVE WritesOf(_, _)
WritesOf(r, out) ==
  IF out = <<>> THEN <<>>
  ELSE (IF out[1].run = r /\ out[1].kind = "write" THEN <<out[1].text>> ELSE <<>>)
         \o WritesOf(r, Tail(out))

\* a geocoding response that names no candidate
IsGeocodingMiss(resp) ==
  /\ resp.api = "geocoding"
  /\ resp.body # Rejected
  /\ ("results" \notin DOMAIN resp.body \/ resp.body.results = <<>>)

\* C1: the steps of a run execute in the declared order, one at a time: the
\* steps invoked so far are a prefix of the declared chain; the second step
\* runs on exactly the value the first returned, which satisfies the first
\* step's output schema; a successful run has run both steps and returns the
\* last step's return value; within fetch-weather the forecast request is
\* issued only after the geocoding response, for the candidate it named.
C1_StepsInDeclaredOrder ==
  \A r \in Runs : Started(r) =>
    LET run == runs[r]
        chain == DeclaredOrder(run.wf) IN
      /\ workflows[run.wf].steps = chain
      /\ run.invoked = SubSeq(chain, 1, run.stepIdx)
      /\ (run.stepIdx = 2 /\ run.pc \in {"execute", "streaming"}) =>
           /\ run.inputData = run.stepOut
           /\ Matches(StepOutputSchema(chain[1]), run.stepOut)
           /\ Len(run.resps) >= 1
      /\ run.status = "Succeeded" =>
           /\ run.stepIdx = 2
           /\ run.output = run.stepOut
           /\ run.resps[Len(run.resps)].api = "end"
      /\ \A i \in 1..Len(run.calls) : run.calls[i].api = "forecast" =>
           /\ i = 2
           /\ run.calls[1].api = "geocoding"
           /\ Len(run.resps) >= 1
           /\ run.resps[1].api = "geocoding"
           /\ ~IsGeocodingMiss(run.resps[1])
           /\ run.resps[1].body # Rejected
           /\ run.calls[2].arg = run.resps[1].body.results[1]

\* a weather run that succeeded after both of its steps ran
C1_Witness ==
  \E r \in Runs :
    /\ runs[r].wf = "weather-workflow"
    /\ runs[r].status = "Succeeded"
    /\ runs[r].invoked = <<"fetch-weather", "plan-activities">>
    /\ ApiOf(runs[r].calls) = <<"geocoding", "forecast", "stream">>

\* C2: a geocoding lookup that returns no candidate fails the weather run with
\* the location-not-found error: no forecast request, no plan-activities, no
\* text-generation call, no output.
C2_GeocodingMissFailsRun ==
  \A r \in Runs :
    (\E i \in 1..Len(runs[r].resps) : IsGeocodingMiss(runs[r].resps[i])) =>
      /\ runs[r].status = "Failed"
      /\ runs[r].error = "Location '" \o runs[r].input.city.str \o "' not found"
      /\ ApiOf(runs[r].calls) = <<"geocoding">>
      /\ runs[r].invoked = <<"fetch-weather">>
      /\ runs[r].output = Undefined

\* a run whose geocoding lookup answered with an empty candidate list
C2_Witness ==
  \E r \in Runs :
    /\ Len(runs[r].resps) = 1
    /\ runs[r].resps[1] = Resp("geocoding", [results |-> <<>>])
    /\ runs[r].input = [city |-> Str("Rome")]

\* a response that makes the step that awaited it throw
IsFailure(resp) ==
  \/ resp.body = Rejected
  \/ IsGeocodingMiss(resp)
  \/ resp.api = "forecast" /\ "error" \in DOMAIN resp.body

\* C3 (state part): a run that met a failure is Failed, the failing response
\* is the last thing it received, and a Failed run is at its end with an
\* error and without any output.
C3_FailedRunHasNoOutput ==
  \A r \in Runs :
    LET run == runs[r] IN
      /\ (\E i \in 1..Len(run.resps) : IsFailure(run.resps[i])) =>
           /\ run.status = "Failed"
           /\ IsFailure(run.resps[Len(run.resps)])
      /\ run.status = "Failed" =>
           /\ run.pc = "done"
           /\ run.error # ""
           /\ run.output = Undefined

\* C3: every failure aborts the run at once: the run is Failed with only the
\* error, and from then on nothing of the run changes: no further step is
\* invoked, no further request is issued, no output appears.
C3_FailureAbortsRun ==
  /\ []C3_FailedRunHasNoOutput
  /\ [][\A r \in Runs : runs[r].status = "Failed" => runs'[r] = runs[r]]_vars

\* a weather run that failed in its second step, by a stream error after one
\* fragment had been received and echoed
C3_Witness ==
  \E r \in Runs :
    /\ runs[r].status = "Failed"
    /\ runs[r].error = "stream failed"
    /\ runs[r].invoked = <<"fetch-weather", "plan-activities">>
    /\ Len(Received(r)) = 1

\* C4: every successful run returns a non-empty activities string.
C4_ActivitiesNonEmpty ==
  \A r \in Runs :
    runs[r].status = "Succeeded" => runs[r].output.activities.str # ""

\* C5 (state part): a workflow is absent, Created or Committed; what the
\* Mastra instance holds is Committed; a run exists only of a registered,
\* Committed workflow and is Running, Succeeded or Failed; Succeeded carries an
\* output and no error, Failed an error and no output.
C5_LifecycleState ==
  /\ \A w \in WorkflowIds : workflows[w].status \in {"Absent", "Created", "Committed"}
  /\ \A w \in registered : workflows[w].status = "Committed"
  /\ \A r \in Runs :
       /\ runs[r].status \in {"Idle", "Running", "Succeeded", "Failed"}
       /\ Started(r) =>
            /\ runs[r].wf \in registered
            /\ workflows[runs[r].wf].status = "Committed"
       /\ runs[r].status = "Succeeded" => runs[r].error = "" /\ runs[r].output # Undefined
       /\ runs[r].status = "Failed" => runs[r].error # "" /\ runs[r].output = Undefined

\* C5: the lifecycle is Created -> Committed for a workflow and Running ->
\* Succeeded | Failed for a run: no run of a workflow that is not Committed, a
\* Committed workflow never changes (its chain stays as committed, whatever
\* runs start and end), and a run's status moves only from Idle to Running and
\* from Running to Succeeded or to Failed, where it stays.
C5_Lifecycle ==
  /\ []C5_LifecycleState
  /\ [][\A w \in WorkflowIds :
          /\ <<workflows[w].status, workflows'[w].status>> \in
               {<<"Absent", "Absent">>, <<"Absent", "Created">>, <<"Created", "Created">>,
                <<"Created", "Committed">>, <<"Committed", "Committed">>}
          /\ workflows[w].status = "Committed" => workflows'[w] = workflows[w]]_vars
  /\ [][\A r \in Runs :
          <<runs[r].status, runs'[r].status>> \in
            {<<"Idle", "Idle">>, <<"Idle", "Running">>, <<"Running", "Running">>,
             <<"Running", "Succeeded">>, <<"Running", "Failed">>,
             <<"Succeeded", "Succeeded">>, <<"Failed", "Failed">>}]_vars

\* one run of a workflow has ended and the same workflow, its chain as
\* declared, is executing the second step of another run
C5_Witness ==
  \E r, q \in Runs :
    /\ r # q
    /\ runs[r].wf = runs[q].wf
    /\ runs[r].status \in {"Succeeded", "Failed"}
    /\ runs[q].status = "Running"
    /\ runs[q].stepIdx = 2
    /\ workflows[runs[q].wf].steps = DeclaredOrder(runs[q].wf)

\* C6: whatever the interleaving of concurrent runs, each run's forecast or
\* search result, its accumulated text, its prompt and its output are those
\* computed from its own input and from the responses it received itself, and
\* what it echoed is what it received.
C6_RunsAreIsolated ==
  \A r \in Runs : Started(r) =>
    LET run == runs[r]
        got == Concat(Received(r)) IN
      /\ run.activitiesText = got
      /\ WritesOf(r, console) = Received(r)
      /\ run.status = "Succeeded" => run.output = [activities |-> Str(got)]
      /\ (run.wf = "weather-workflow" /\ Len(run.resps) >= 2
            /\ "data" \in DOMAIN run.resps[2].body) =>
           LET own == MakeForecast(run.input, run.resps[2].body.data, run.resps[2].body.now) IN
             /\ own.location = run.input.city
             /\ run.stepIdx = 1 => run.stepOut = own
             /\ run.stepIdx = 2 => run.inputData = own
             /\ Len(run.calls) >= 3 => run.calls[3].arg = ForecastPrompt(own)
      /\ (run.wf = "web-search-workflow" /\ Len(run.resps) >= 1
            /\ "text" \in DOMAIN run.resps[1].body) =>
           LET own == SearchResult(run.input, run.resps[1].body.text) IN
             /\ run.stepIdx = 1 => run.stepOut = own
             /\ run.stepIdx = 2 => run.inputData = own
             /\ Len(run.calls) >= 2 => run.calls[2].arg = FindingsPrompt(own)

\* two runs of one workflow with different inputs have both succeeded, with
\* different outputs, and their console lines are interleaved
C6_Witness ==
  \E r, q \in Runs :
    /\ r # q
    /\ runs[r].wf = runs[q].wf
    /\ runs[r].input # runs[q].input
    /\ runs[r].status = "Succeeded"
    /\ runs[q].status = "Succeeded"
    /\ runs[r].output # runs[q].output
    /\ \E i, j, k \in 1..Len(console) :
         /\ i < j /\ j < k
         /\ console[i].run = r /\ console[j].run = q /\ console[k].run = r

\* C7 as stated: for every series P, precipitationChance is the maximum of P,
\* a reading of P.
C7_ChanceIsMaxOfAnySeries ==
  (fn.op = "forecast" /\ fn.done) =>
    LET P == fn.arg.data.hourly.precipitation_probability
        chance == fn.res.precipitationChance.num IN
      /\ \E i \in 1..Len(P) : P[i] = chance
      /\ \A i \in 1..Len(P) : P[i] <= chance

\* C7 as amended: for every non-empty series P of non-negative readings,
\* precipitationChance is the maximum of P, a reading of P; for the empty
\* series it is 0, the seed of the reduction.
C7_ChanceIsMaxOfNonEmptySeries ==
  (fn.op = "forecast" /\ fn.done) =>
    LET P == fn.arg.data.hourly.precipitation_probability
        chance == fn.res.precipitationChance.num IN
      IF P = <<>> THEN chance = 0
      ELSE /\ \E i \in 1..Len(P) : P[i] = chance
           /\ \A i \in 1..Len(P) : P[i] <= chance

\* the forecast of the series 10, 90, 30 has precipitationChance 90
C7_Witness ==
  /\ fn.op = "forecast"
  /\ fn.done
  /\ fn.arg.data.hourly.precipitation_probability = <<10, 90, 30>>
  /\ fn.res.precipitationChance = Num(90)

\* C8: in both planning steps the accumulated text is the concatenation of
\* the fragments received so far, in the order received; what the step has
\* echoed to stdout is, at every moment, exactly the fragments received so far
\* in the same order; the step returns, and the run outputs, that
\* concatenation and nothing of the echo.
C8_TextIsConcatenationInOrder ==
  \A r \in Runs : Started(r) =>
    LET run == runs[r]
        got == Concat(Received(r)) IN
      /\ run.stepIdx = 2 => run.activitiesText = got
      /\ WritesOf(r, console) = Received(r)
      /\ (run.stepIdx = 2 /\ run.pc = "returned") => run.stepOut = [activities |-> Str(got)]
      /\ run.status = "Succeeded" => run.output = [activities |-> Str(got)]

\* a web-search run received "Hel" and then "lo" and returned "Hello"
C8_Witness ==
  \E r \in Runs :
    /\ runs[r].wf = "web-search-workflow"
    /\ runs[r].status = "Succeeded"
    /\ Received(r) = <<"Hel", "lo">>
    /\ runs[r].output = [activities |-> Str("Hello")]

\* the text-generation request of web-search-info, when one was issued
SearchPhraseSent(r) ==
  {runs[r].calls[i].arg : i \in {j \in 1..Len(runs[r].calls) : runs[r].calls[j].api = "generate"}}

\* C9 as stated: the search phrase is the query, the focus when one is
\* supplied, and the boilerplate "current information activities attractions
\* events", the same with and without a focus.
C9_SamePhraseBoilerplate ==
  \A r \in Runs : \A phrase \in SearchPhraseSent(r) :
    LET q == runs[r].input.query.str
        focus == Field(runs[r].input, "focus") IN
      phrase = Str(IF IsString(focus)
                     THEN q \o " " \o focus.str \o " current information activities attractions events"
                     ELSE q \o " current information activities attractions events")

\* C9 as amended: with a non-empty focus the search phrase is the query, the
\* focus and "current information activities attractions events"; with no
\* focus, or an empty one, it is the query and "current activities attractions
\* events what to do"; the step returns the findings text with the query and
\* the focus as given.
C9_PhraseByFocus ==
  \A r \in Runs :
    LET run == runs[r]
        focus == Field(run.input, "focus") IN
      /\ \A phrase \in SearchPhraseSent(r) :
           phrase = Str(IF IsString(focus) /\ focus.str # ""
                          THEN run.input.query.str \o " " \o focus.str
                                 \o " current information activities attractions events"
                          ELSE run.input.query.str
                                 \o " current activities attractions events what to do")
      /\ (run.wf = "web-search-workflow" /\ run.stepIdx = 1 /\ run.pc = "returned") =>
           /\ run.stepOut.searchResults = Str(run.resps[1].body.text)
           /\ run.stepOut.query = run.input.query
           /\ run.stepOut.focus = focus

\* web-search-info has returned for the query "Lisbon" with the focus "food"
C9_Witness ==
  \E r \in Runs :
    /\ runs[r].input = [query |-> Str("Lisbon"), focus |-> Str("food")]
    /\ runs[r].stepIdx = 1
    /\ runs[r].pc = "returned"
    /\ SearchPhraseSent(r) =
         {Str("Lisbon food current information activities attractions events")}

\* the documented table
DocumentedLabels ==
  {<<0, "Clear sky">>, <<1, "Mainly clear">>, <<2, "Partly cloudy">>, <<3, "Overcast">>,
   <<45, "Foggy">>, <<48, "Depositing rime fog">>, <<51, "Light drizzle">>,
   <<53, "Moderate drizzle">>, <<55, "Dense drizzle">>, <<61, "Slight rain">>,
   <<63, "Moderate rain">>, <<65, "Heavy rain">>, <<71, "Slight snow fall">>,
   <<73, "Moderate snow fall">>, <<75, "Heavy snow fall">>, <<95, "Thunderstorm">>}

\* C10: getWeatherCondition yields a string for every code: the documented
\* label for each of the 16 codes of the table, "Unknown" for every other.
C10_WeatherConditionTotal ==
  (fn.op = "getWeatherCondition" /\ fn.done) =>
    /\ IsString(fn.res)
    /\ \A p \in DocumentedLabels : p[1] = fn.arg.code => fn.res.str = p[2]
    /\ fn.arg.code \notin {p[1] : p \in DocumentedLabels} => fn.res.str = "Unknown"

\* code 61 was mapped to "Slight rain"
C10_Witness ==
  /\ fn.op = "getWeatherCondition"
  /\ fn.done
  /\ fn.arg.code = 61
  /\ fn.res = Str("Slight rain")

====
